---- MODULE Spec2Model ----
(***************************************************************************)
(* Model of src/main.py: PixabayDownloader.  One search request, then one  *)
(* thread per returned URL running descargar_imagen, then a join of every  *)
(* thread.  The script (lines 143-145) may be executed again, any number   *)
(* of times: the output directory persists between executions, everything  *)
(* else is per process.                                                    *)
(*                                                                         *)
(* The network is the environment: every request is answered by a          *)
(* nondeterministic choice among a network error and any response of the   *)
(* bounded sets below.  Library behaviour is that of requests 2.27 and     *)
(* later: raise_for_status raises for 4xx and 5xx, json() raises a         *)
(* RequestException on a body that is not JSON, get raises a               *)
(* RequestException on a string that is no URL.  The operating system      *)
(* grants every thread start and every open of a file.  Standard output    *)
(* is kept as the set of lines printed by the current process (their       *)
(* relative order is not kept).  In a thread, the return of requests.get,  *)
(* the status check and the open of the file touch nothing shared before   *)
(* the open, and are one step.                                             *)
(***************************************************************************)
EXTENDS Integers, Sequences, FiniteSets, TLC

\* ---------------------------------------------------------------- bounds
\* Longest "hits" array the provider answers with.
MaxHits == 2
\* Largest value of the argument cantidad.
MaxCantidad == 1
\* Number of fragments iter_content yields for a complete body.
NumFragmentos == 1

\* ------------------------------------------------------------ input sets
UrlA == "http://x/a.jpg"
UrlB == "http://x/b.jpg"
\* Values the provider may put in a largeImageURL field ("" is not a URL).
ValoresUrl == {UrlA, UrlB, ""}
\* HTTP statuses of a final response: success, a redirection class status
\* that requests hands back as is, client error, server error.
Estados == {200, 300, 404, 500}
\* An entry of "hits": a dict with the field, or a dict without it.
Entradas == {[largeImageURL |-> v] : v \in ValoresUrl} \cup {[id |-> 1]}

SeqHasta(S, n) == UNION {[1..m -> S] : m \in 0..n}

\* Response bodies: not JSON at all, a JSON object without "hits", a JSON
\* object with a "hits" array.
NoJson == [json |-> FALSE, datos |-> [total |-> 0]]
Cuerpos == {NoJson} \cup {[json |-> TRUE, datos |-> [total |-> 0]]}
           \cup {[json |-> TRUE, datos |-> [hits |-> h]] :
                     h \in SeqHasta(Entradas, MaxHits)}
Respuestas == [status : Estados, body : Cuerpos]

Consulta == "perros"
Cantidades == 0..MaxCantidad
Directorio == "imagenes_descargadas"
\* No response held.
Ninguna == [status |-> 0, body |-> NoJson]

VARIABLES
    pc,            \* position of the main thread in the script
    reejecucion,   \* this execution is not the first on the directory
    cantidad,      \* argument cantidad of line 145
    parametros,    \* query parameters of the search request in flight
    respuesta,     \* response of the search request (local of search)
    urls,          \* value returned by obtener_urls_imagenes
    excepcion,     \* exception that left the main thread, or "None"
    hilos,         \* threads created by the run, in list order
    unidos,        \* number of threads the join loop has passed
    disco,         \* the file system: path -> sequence of fragments
    nombresPrevios,\* the paths that existed when this execution started
    salida         \* lines printed by this execution

vars == <<pc, reejecucion, cantidad, parametros, respuesta, urls, excepcion,
          hilos, unidos, disco, nombresPrevios, salida>>

\* ------------------------------------------------------- pure functions

\* A status check that lets client errors through.
raise_for_status_solo_5xx(status) == 500 <= status /\ status < 600

\* Response.raise_for_status: raises HTTPError for 4xx and 5xx only.
raise_for_status(status) == 400 <= status /\ status < 600

\* Response.json(): raises requests JSONDecodeError (a RequestException)
\* when the body is not JSON.
EsJson(body) == body.json

\* datos['hits'] raises KeyError when the key is absent.
TieneHits(datos) == "hits" \in DOMAIN datos

\* imagen['largeImageURL'] raises KeyError when the key is absent.
TieneUrl(imagen) == "largeImageURL" \in DOMAIN imagen

\* The same list built back to front.
ExtraerUrlsInvertido(hits) ==
    [p \in 1..Len(hits) |-> hits[Len(hits) + 1 - p].largeImageURL]

\* [imagen['largeImageURL'] for imagen in datos['hits']]
ExtraerUrls(hits) == [p \in 1..Len(hits) |-> hits[p].largeImageURL]

\* One name for every position.
NombreArchivoConstante(i) == <<"imagen_", 1, ".jpg">>

\* A name numbered after the files the directory already holds.
NombreArchivoAcumula(i) ==
    <<"imagen_", i + 1 + Cardinality(DOMAIN disco), ".jpg">>

\* The name built from enumerate's index as it is.
NombreArchivoBaseCero(i) == <<"imagen_", i, ".jpg">>

\* f"imagen_{i+1}.jpg", i the 0-based index of enumerate.
NombreArchivo(i) == <<"imagen_", i + 1, ".jpg">>

\* A path that drops the file name: every download lands on one file.
RutaFija(nombre_archivo) == <<Directorio, <<"imagen_", 0, ".jpg">>>>

\* os.path.join(self.directorio_imagenes, nombre_archivo)
Ruta(nombre_archivo) == <<Directorio, nombre_archivo>>

\* The body served for a URL, as the fragments iter_content yields.
Fragmento(url, k) == <<url, k>>
CuerpoDe(url) == [k \in 1..NumFragmentos |-> Fragmento(url, k)]

\* requests.get raises MissingSchema (a RequestException) for a string
\* that is no URL, before anything is sent.
UrlValida(url) == url # ""

\* Lines printed.
MsgErrorApi == <<"Error en la solicitud a la API">>
MsgSinImagenes == <<"No se encontraron imagenes para descargar.">>
MsgCompletada(nombre_archivo) == <<"Descarga completada", nombre_archivo>>
MsgErrorDescarga(nombre_archivo) == <<"Error descargando", nombre_archivo>>
MsgTodas == <<"Todas las imagenes han sido descargadas.">>

\* open(ruta, 'ab'): creates the file or keeps what it holds.
AbrirAb(d, ruta) ==
    [r \in DOMAIN d \cup {ruta} |-> IF r \in DOMAIN d THEN d[r] ELSE <<>>]

\* open(ruta, 'wb'): creates the file or truncates it to zero length.
AbrirWb(d, ruta) ==
    [r \in DOMAIN d \cup {ruta} |-> IF r = ruta THEN <<>> ELSE d[r]]

\* archivo.write(fragmento)
Escribir(d, ruta, fragmento) ==
    [d EXCEPT ![ruta] = Append(@, fragmento)]

\* ----------------------------------------------------------------- Init
Init ==
    /\ pc = "no_iniciado"
    /\ reejecucion = FALSE
    /\ cantidad \in Cantidades
    /\ parametros = <<>>
    /\ respuesta = Ninguna
    /\ urls = <<>>
    /\ excepcion = "None"
    /\ hilos = <<>>
    /\ unidos = 0
    /\ disco = <<>>
    /\ nombresPrevios = {}
    /\ salida = {}

\* Lines 143-145, then 121 and 64-73: a process starts, builds the
\* downloader (makedirs keeps an existing directory and its files), calls
\* run, which calls search, which sends the search request.
Iniciar ==
    /\ pc \in {"no_iniciado", "fin", "abortado"}
    /\ reejecucion' = (pc # "no_iniciado")
    /\ pc' = "buscando"
    /\ parametros' = [key |-> "API_KEY", q |-> Consulta,
                      image_type |-> "photo", per_page |-> cantidad]
    /\ respuesta' = Ninguna
    /\ urls' = <<>>
    /\ excepcion' = "None"
    /\ hilos' = <<>>
    /\ unidos' = 0
    /\ nombresPrevios' = DOMAIN disco
    /\ salida' = {}
    /\ UNCHANGED <<cantidad, disco>>

\* obtener_urls_imagenes on a received response (lines 74-80): what it
\* returns or raises, and whether the except branch printed.
ProcesarRespuesta(r) ==
    IF raise_for_status(r.status) \/ ~EsJson(r.body)
    THEN [excepcion |-> "None", urls |-> <<>>, error |-> TRUE]
    ELSE IF ~TieneHits(r.body.datos)
    THEN [excepcion |-> "KeyError", urls |-> <<>>, error |-> FALSE]
    ELSE IF \E p \in 1..Len(r.body.datos.hits) : ~TieneUrl(r.body.datos.hits[p])
    THEN [excepcion |-> "KeyError", urls |-> <<>>, error |-> FALSE]
    ELSE [excepcion |-> "None", urls |-> ExtraerUrls(r.body.datos.hits),
          error |-> FALSE]

\* Line 73 raises (connection error, timeout, ...): lines 78-80.
BuscarFallaRed ==
    /\ pc = "buscando"
    /\ pc' = "retornado"
    /\ urls' = <<>>
    /\ salida' = salida \cup {MsgErrorApi}
    /\ UNCHANGED <<reejecucion, cantidad, parametros, respuesta, excepcion,
                   hilos, unidos, disco, nombresPrevios>>

\* Line 73 returns a response: lines 74-80.  A KeyError is not caught by
\* line 78, nor by run, nor by the script: the process ends with it.
BuscarResponde ==
    /\ pc = "buscando"
    /\ \E r \in Respuestas :
          LET res == ProcesarRespuesta(r) IN
          /\ respuesta' = r
          /\ excepcion' = res.excepcion
          /\ urls' = res.urls
          /\ pc' = IF res.excepcion = "None" THEN "retornado" ELSE "abortado"
          /\ salida' = IF res.error THEN salida \cup {MsgErrorApi} ELSE salida
    /\ UNCHANGED <<reejecucion, cantidad, parametros, hilos, unidos, disco,
                   nombresPrevios>>

\* Line 125 without its return: control falls through to the loops.
TrasSinImagenesSinReturn == "esperando"

\* Line 125: the return ends run, and with it the script.
TrasSinImagenes == "fin"

\* Lines 123-125: nothing to download.
SinImagenes ==
    /\ pc = "retornado"
    /\ urls = <<>>
    /\ pc' = TrasSinImagenes
    /\ salida' = salida \cup {MsgSinImagenes}
    /\ respuesta' = Ninguna
    /\ UNCHANGED <<reejecucion, cantidad, parametros, urls, excepcion, hilos,
                   unidos, disco, nombresPrevios>>

\* A thread as created by line 131 and started by line 133: its arguments
\* and its position in descargar_imagen ("get": line 99 sent its request).
NuevoHilo(url, nombre_archivo) ==
    [url |-> url, nombre_archivo |-> nombre_archivo, pc |-> "get", k |-> 0]

\* A start that waits until every thread started before has ended.
ArrancaDeUnoEnUno(hs) == \A t \in 1..Len(hs) : hs[t].pc = "fin"

\* hilo.start() (line 133) returns at once: no pool, semaphore or cap
\* makes it wait for the threads already started.
PuedeArrancar(hs) == TRUE

\* Lines 128-133, one iteration of the for loop: i is enumerate's index.
Lanzar ==
    /\ pc \in {"retornado", "lanzando"}
    /\ Len(hilos) < Len(urls)
    /\ PuedeArrancar(hilos)
    /\ LET i == Len(hilos) IN
          hilos' = Append(hilos, NuevoHilo(urls[i + 1], NombreArchivo(i)))
    /\ pc' = IF Len(hilos') = Len(urls) THEN "esperando" ELSE "lanzando"
    /\ respuesta' = Ninguna
    /\ UNCHANGED <<reejecucion, cantidad, parametros, urls, excepcion, unidos,
                   disco, nombresPrevios, salida>>

\* The thread of list position t has left descargar_imagen.
Terminado(h) == h.pc = "fin"

\* A join that returns at once, whatever the thread is doing.
JoinSinEsperar(h) == TRUE

\* hilo.join() returns once the thread has ended.
JoinListo(h) == Terminado(h)

\* Lines 136-137, one iteration.
Join ==
    /\ pc = "esperando"
    /\ unidos < Len(hilos)
    /\ JoinListo(hilos[unidos + 1])
    /\ unidos' = unidos + 1
    /\ UNCHANGED <<pc, reejecucion, cantidad, parametros, respuesta, urls,
                   excepcion, hilos, disco, nombresPrevios, salida>>

\* Line 139, after the join loop.
Completar ==
    /\ pc = "esperando"
    /\ unidos = Len(hilos)
    /\ pc' = "fin"
    /\ salida' = salida \cup {MsgTodas}
    /\ UNCHANGED <<reejecucion, cantidad, parametros, respuesta, urls,
                   excepcion, hilos, unidos, disco, nombresPrevios>>

\* An except branch that prints and sends the request again.
FinReintenta(t) ==
    /\ hilos' = [hilos EXCEPT ![t].pc = "get", ![t].k = 0]
    /\ salida' = salida \cup {MsgErrorDescarga(hilos[t].nombre_archivo)}

\* descargar_imagen without its except branch: the exception leaves the
\* function and the thread dies with a traceback.
FinSinExcept(t) ==
    /\ hilos' = [hilos EXCEPT ![t].pc = "fin"]
    /\ salida' = salida \cup {<<"Traceback", hilos[t].nombre_archivo>>}

\* Lines 107-108, then the thread ends.
FinConError(t) ==
    /\ hilos' = [hilos EXCEPT ![t].pc = "fin"]
    /\ salida' = salida \cup {MsgErrorDescarga(hilos[t].nombre_archivo)}

\* Line 99 raises: no connection, timeout, or a string that is no URL.
DescargaFallaRed(t) ==
    /\ hilos[t].pc = "get"
    /\ FinConError(t)
    /\ UNCHANGED <<pc, reejecucion, cantidad, parametros, respuesta, urls,
                   excepcion, unidos, disco, nombresPrevios>>

\* The file opened before the status is checked.
RespondeConAbreAntes(t, status) ==
    /\ disco' = AbrirWb(disco, Ruta(hilos[t].nombre_archivo))
    /\ IF raise_for_status(status)
       THEN FinConError(t)
       ELSE /\ hilos' = [hilos EXCEPT ![t].pc = "escribir"]
            /\ salida' = salida

\* Line 99 returns a response with this status, line 100 checks it, and
\* with a status that does not raise lines 102-103 open the file.
RespondeCon(t, status) ==
    IF raise_for_status(status)
    THEN FinConError(t) /\ disco' = disco
    ELSE /\ hilos' = [hilos EXCEPT ![t].pc = "escribir"]
         /\ disco' = AbrirWb(disco, Ruta(hilos[t].nombre_archivo))
         /\ salida' = salida

\* Line 99 returns a response: lines 100-103.
DescargaResponde(t) ==
    /\ hilos[t].pc = "get"
    /\ UrlValida(hilos[t].url)
    /\ \E status \in Estados : RespondeCon(t, status)
    /\ UNCHANGED <<pc, reejecucion, cantidad, parametros, respuesta, urls,
                   excepcion, unidos, nombresPrevios>>

\* Lines 104-105, one iteration: the next fragment arrives and is written.
EscribirFragmento(t) ==
    /\ hilos[t].pc = "escribir"
    /\ hilos[t].k < NumFragmentos
    /\ disco' = Escribir(disco, Ruta(hilos[t].nombre_archivo),
                         CuerpoDe(hilos[t].url)[hilos[t].k + 1])
    /\ hilos' = [hilos EXCEPT ![t].k = @ + 1]
    /\ UNCHANGED <<pc, reejecucion, cantidad, parametros, respuesta, urls,
                   excepcion, unidos, nombresPrevios, salida>>

\* Line 104 raises while the body is read: the with block closes the file
\* and leaves it as written so far.
FlujoFalla(t) ==
    /\ hilos[t].pc = "escribir"
    /\ hilos[t].k < NumFragmentos
    /\ FinConError(t)
    /\ UNCHANGED <<pc, reejecucion, cantidad, parametros, respuesta, urls,
                   excepcion, unidos, disco, nombresPrevios>>

\* The body is exhausted: the file is closed, line 106.
DescargaCompleta(t) ==
    /\ hilos[t].pc = "escribir"
    /\ hilos[t].k = NumFragmentos
    /\ hilos' = [hilos EXCEPT ![t].pc = "fin"]
    /\ salida' = salida \cup {MsgCompletada(hilos[t].nombre_archivo)}
    /\ UNCHANGED <<pc, reejecucion, cantidad, parametros, respuesta, urls,
                   excepcion, unidos, disco, nombresPrevios>>

\* One step of the thread of list position t.
PasoHilo(t) ==
    \/ DescargaFallaRed(t)
    \/ DescargaResponde(t)
    \/ EscribirFragmento(t)
    \/ FlujoFalla(t)
    \/ DescargaCompleta(t)

Next ==
    \/ Iniciar
    \/ BuscarFallaRed
    \/ BuscarResponde
    \/ SinImagenes
    \/ Lanzar
    \/ Join
    \/ Completar
    \/ \E t \in 1..Len(hilos) : DescargaFallaRed(t)
    \/ \E t \in 1..Len(hilos) : DescargaResponde(t)
    \/ \E t \in 1..Len(hilos) : EscribirFragmento(t)
    \/ \E t \in 1..Len(hilos) : FlujoFalla(t)
    \/ \E t \in 1..Len(hilos) : DescargaCompleta(t)

Spec == Init /\ [][Next]_vars

\* ------------------------------------------- one execution, fairly scheduled
\* The script executed once, on a directory it creates.
IniciarUnaVez == pc = "no_iniciado" /\ Iniciar

\* One step of the thread of list position t, if there is such a thread.
PasoHiloSiExiste(t) == t \in 1..Len(hilos) /\ PasoHilo(t)

NextUnaVez ==
    \/ IniciarUnaVez
    \/ BuscarFallaRed
    \/ BuscarResponde
    \/ SinImagenes
    \/ Lanzar
    \/ Join
    \/ Completar
    \/ \E t \in 1..Len(hilos) : DescargaFallaRed(t)
    \/ \E t \in 1..Len(hilos) : DescargaResponde(t)
    \/ \E t \in 1..Len(hilos) : EscribirFragmento(t)
    \/ \E t \in 1..Len(hilos) : FlujoFalla(t)
    \/ \E t \in 1..Len(hilos) : DescargaCompleta(t)

\* The scheduler runs every thread that can take a step, the main thread
\* included, and every request sent is answered in the end, by a response
\* or by an error.
Justicia ==
    /\ WF_vars(IniciarUnaVez)
    /\ WF_vars(BuscarFallaRed \/ BuscarResponde)
    /\ WF_vars(SinImagenes)
    /\ WF_vars(Lanzar)
    /\ WF_vars(Join)
    /\ WF_vars(Completar)
    /\ \A t \in 1..MaxHits : WF_vars(PasoHiloSiExiste(t))

SpecJusta == Init /\ [][NextUnaVez]_vars /\ Justicia

\* ------------------------------------------------- vocabulary of the claims
\* The file name and the path the documentation gives to position i (1-based).
NombreDePosicion(i) == <<"imagen_", i, ".jpg">>
RutaDePosicion(i) == <<Directorio, NombreDePosicion(i)>>

\* run has returned normally.
RunRetorno == pc = "fin"

\* The thread of list position t ended in the except branch / at line 106.
HiloFallo(t) == Terminado(hilos[t]) /\ MsgErrorDescarga(hilos[t].nombre_archivo) \in salida
HiloCompleto(t) == Terminado(hilos[t]) /\ MsgCompletada(hilos[t].nombre_archivo) \in salida

\* The file at a path, <<"ausente">> when there is none.
Archivo(d, ruta) == IF ruta \in DOMAIN d THEN <<"archivo", d[ruta]>> ELSE <<"ausente">>

\* ----------------------------------------------------------------- C1
\* C1: join-all barrier.  Whenever search returned N >= 1 URLs and run has
\* printed the completion line or has returned, all N threads have been
\* started and every one of them has ended (in success or in failure).
C1_JoinBarrier ==
    (urls # <<>> /\ (MsgTodas \in salida \/ RunRetorno))
        => /\ Len(hilos) = Len(urls)
           /\ \A t \in 1..Len(hilos) : Terminado(hilos[t])

\* A run of two downloads, one failed and one complete, has returned.
C1_Witness ==
    /\ RunRetorno
    /\ MsgTodas \in salida
    /\ Len(hilos) = 2
    /\ \E a, b \in 1..Len(hilos) : HiloFallo(a) /\ HiloCompleto(b)

\* ----------------------------------------------------------------- C2
\* C2: the threads started are exactly one per position of the search
\* result, in order: the thread of position i holds the i-th URL and the
\* file name imagen_<i>.jpg, and once the launch loop is over there are as
\* many threads as URLs.
C2_UnHiloPorPosicion ==
    /\ Len(hilos) <= Len(urls)
    /\ \A t \in 1..Len(hilos) :
          /\ hilos[t].url = urls[t]
          /\ hilos[t].nombre_archivo = NombreDePosicion(t)
    /\ (pc \in {"esperando", "fin"} /\ urls # <<>>) => Len(hilos) = Len(urls)

\* Two threads started for two different URLs.
C2_Witness ==
    /\ pc = "esperando"
    /\ Len(hilos) = 2
    /\ hilos[1].url # hilos[2].url
    /\ hilos[1].nombre_archivo # hilos[2].nombre_archivo

\* ----------------------------------------------------------------- C3
\* C3: independence of the downloads.  (a) A thread that has not ended can
\* always take its next step, whatever the other threads did.  (b) What a
\* thread finds in its own file is what it wrote itself: its first k
\* fragments while it writes, its whole body once it has completed.  (c) A
\* step of the thread of position k (a failure included) changes neither
\* the state nor the file of any other position j.
C3_Estado ==
    \A j \in 1..Len(hilos) :
       /\ ~Terminado(hilos[j]) => ENABLED PasoHilo(j)
       /\ hilos[j].pc = "escribir" =>
             Archivo(disco, RutaDePosicion(j)) =
                <<"archivo", SubSeq(CuerpoDe(hilos[j].url), 1, hilos[j].k)>>
       /\ HiloCompleto(j) =>
             Archivo(disco, RutaDePosicion(j)) = <<"archivo", CuerpoDe(hilos[j].url)>>

C3_Paso ==
    Len(hilos') = Len(hilos) =>
       \A k \in 1..Len(hilos) :
          hilos'[k] # hilos[k] =>
             \A j \in 1..Len(hilos) \ {k} :
                /\ hilos'[j] = hilos[j]
                /\ Archivo(disco', RutaDePosicion(j)) = Archivo(disco, RutaDePosicion(j))

C3_Independencia == []C3_Estado /\ [][C3_Paso]_vars

\* Position 1 failed and position 2, which ended later or earlier, holds
\* its complete body.
C3_Witness ==
    /\ Len(hilos) = 2
    /\ HiloFallo(1)
    /\ HiloCompleto(2)
    /\ Archivo(disco, RutaDePosicion(2)) = <<"archivo", CuerpoDe(urls[2])>>

\* ------------------------------------------------- search: vocabulary
\* obtener_urls_imagenes has just returned or raised; its response, if any,
\* is still held.
BusquedaTermino == pc \in {"retornado", "abortado"}

\* requests.get raised: there is no response.
BusquedaSinRespuesta == BusquedaTermino /\ respuesta = Ninguna

\* obtener_urls_imagenes returned through line 77.
BusquedaExitosa == pc = "retornado" /\ MsgErrorApi \notin salida

\* The hits of the response held.
HitsRecibidos == respuesta.body.datos.hits

C5_Estado ==
    (pc \in {"retornado", "fin"} /\ urls = <<>>)
        => /\ hilos = <<>>
           /\ MsgTodas \notin salida
           /\ pc = "fin" => MsgSinImagenes \in salida

C5_Paso ==
    /\ pc' = "buscando" => (hilos' = <<>> /\ disco' = disco)
    /\ (pc = "buscando" /\ urls' = <<>>) => (hilos' = <<>> /\ disco' = disco)
    /\ (pc = "retornado" /\ urls = <<>>)
          => /\ pc' = "fin"
             /\ hilos' = <<>>
             /\ disco' = disco
             /\ MsgSinImagenes \in salida'

C5_SinResultados == []C5_Estado /\ [][C5_Paso]_vars

\* The provider answered with zero hits, on a directory that holds files of
\* an earlier execution: run has returned.
C5_Witness ==
    /\ pc = "fin"
    /\ urls = <<>>
    /\ MsgSinImagenes \in salida
    /\ MsgErrorApi \notin salida
    /\ DOMAIN disco # {}

\* ----------------------------------------------------------------- C6
\* C6 as stated: a 2xx response whose JSON lacks the hits array, or holds
\* an entry without largeImageURL, makes search return the empty sequence,
\* and no exception leaves search or run.
C6_CamposAusentes ==
    (/\ BusquedaTermino
     /\ respuesta.status \in 200..299
     /\ respuesta.body.json
     /\ \/ ~TieneHits(respuesta.body.datos)
        \/ \E p \in 1..Len(HitsRecibidos) : ~TieneUrl(HitsRecibidos[p]))
        => (pc = "retornado" /\ urls = <<>> /\ excepcion = "None")

\* ----------------------------------------------------------------- C7
\* C7 as stated: the sequence search returns is never longer than cantidad.
C7_LongitudAcotada == pc = "retornado" => Len(urls) <= cantidad

\* ----------------------------------------------------------------- C8
\* C8: a successful search returns the largeImageURL fields of the entries
\* of the response, one per entry, in the provider's order.
C8_OrdenDelProveedor ==
    BusquedaExitosa
        => /\ TieneHits(respuesta.body.datos)
           /\ Len(urls) = Len(HitsRecibidos)
           /\ \A p \in 1..Len(urls) : urls[p] = HitsRecibidos[p].largeImageURL

\* Two entries with different URLs were returned.
C8_Witness ==
    /\ BusquedaExitosa
    /\ Len(urls) = 2
    /\ urls[1] # urls[2]

\* ----------------------------------------------------------------- C9
\* C9 as stated: every element a successful search returns is a non-empty
\* string.
C9_UrlsNoVacias ==
    BusquedaExitosa => \A p \in 1..Len(urls) : urls[p] # ""

\* ----------------------------------------------------------------- C10
\* The paths of the positions of this execution's search result.
RutasDeEstaEjecucion == {RutaDePosicion(i) : i \in 1..Len(urls)}

\* An execution of the script has ended (the arguments of line 145 are
\* the same in every execution).
EjecucionTermino == pc \in {"fin", "abortado"}

\* C10 as stated: after a second execution with the same keyword and count
\* the set of file names equals the set the first execution left.
C10_MismoConjunto ==
    (reejecucion /\ EjecucionTermino) => DOMAIN disco = nombresPrevios

\* C10 amended: an execution removes no file name and adds only names
\* imagen_<i>.jpg of positions i of its own search result; so when every
\* such position already had a file, the set of names is the same after it.
C10_SoloPosiciones ==
    /\ nombresPrevios \subseteq DOMAIN disco
    /\ (DOMAIN disco \ nombresPrevios) \subseteq RutasDeEstaEjecucion
    /\ (EjecucionTermino /\ RutasDeEstaEjecucion \subseteq nombresPrevios)
          => DOMAIN disco = nombresPrevios

\* A later execution completed a download onto a file an earlier one left.
C10_Witness ==
    /\ reejecucion
    /\ pc = "fin"
    /\ nombresPrevios # {}
    /\ DOMAIN disco = nombresPrevios
    /\ \E t \in 1..Len(hilos) : HiloCompleto(t)

\* ----------------------------------------------------------------- C11
\* C11: a failed download swallows its error.  Every thread that has ended
\* left descargar_imagen through line 106 or through the except branch
\* (lines 107-108), never with an exception; no exception leaves run once a
\* thread exists; and, the scheduler being fair and every request being
\* answered, a run whose search returned at least one URL returns after
\* printing the completion line, also when every download failed.
C11_Estado ==
    /\ \A t \in 1..Len(hilos) :
          Terminado(hilos[t]) => (HiloFallo(t) \/ HiloCompleto(t))
    /\ hilos # <<>> => (excepcion = "None" /\ pc # "abortado")
    /\ (RunRetorno /\ urls # <<>>) => MsgTodas \in salida

C11_Vida ==
    (pc = "retornado" /\ urls # <<>>) ~> (RunRetorno /\ MsgTodas \in salida)

ArchivoCompleto(t) ==
    Archivo(disco, RutaDePosicion(t)) = <<"archivo", CuerpoDe(hilos[t].url)>>

\* Position t has no file, or a file shorter than a whole body.
AusenteOTruncado(t) ==
    \/ RutaDePosicion(t) \notin DOMAIN disco
    \/ Len(disco[RutaDePosicion(t)]) < NumFragmentos

\* C12 as stated: after a run, whatever ran before it, every position that
\* was retrieved has its complete file and every position whose download
\* failed has no file or a truncated one.
C12_Disposicion ==
    (RunRetorno /\ urls # <<>>)
        => \A t \in 1..Len(hilos) :
              /\ HiloCompleto(t) => ArchivoCompleto(t)
              /\ HiloFallo(t) => AusenteOTruncado(t)

\* C12 amended: after a run, every position that was retrieved has its
\* complete file, and every position whose download failed has no file or
\* a truncated one unless a file of that name existed before the run.
C12_DisposicionConPrevios ==
    (RunRetorno /\ urls # <<>>)
        => \A t \in 1..Len(hilos) :
              /\ HiloCompleto(t) => ArchivoCompleto(t)
              /\ (HiloFallo(t) /\ RutaDePosicion(t) \notin nombresPrevios)
                    => AusenteOTruncado(t)

\* A later run: position 1 failed and still shows the whole file an earlier
\* run left, position 2 was retrieved.
C12_Witness ==
    /\ reejecucion
    /\ RunRetorno
    /\ Len(hilos) = 2
    /\ HiloFallo(1)
    /\ RutaDePosicion(1) \in nombresPrevios
    /\ ~AusenteOTruncado(1)
    /\ HiloCompleto(2)
    /\ ArchivoCompleto(2)

\* ----------------------------------------------------------------- C13
\* The threads that have not ended and whose destination is this path.
HilosVivosSobre(ruta) ==
    {t \in 1..Len(hilos) :
        ~Terminado(hilos[t]) /\ Ruta(hilos[t].nombre_archivo) = ruta}

\* C13: no two threads alive at the same time have the same destination
\* file, and every step that creates or changes a file happens while
\* exactly one living thread has that file as its destination.
C13_Estado ==
    \A a, b \in 1..Len(hilos) :
       (a # b /\ ~Terminado(hilos[a]) /\ ~Terminado(hilos[b]))
          => Ruta(hilos[a].nombre_archivo) # Ruta(hilos[b].nombre_archivo)

C13_Paso ==
    \A ruta \in DOMAIN disco' :
       Archivo(disco', ruta) # Archivo(disco, ruta)
          => Cardinality(HilosVivosSobre(ruta)) = 1

C13_SinEstadoCompartido == []C13_Estado /\ [][C13_Paso]_vars

\* Two threads are writing their files at the same time.
C13_Witness ==
    /\ Len(hilos) = 2
    /\ hilos[1].pc = "escribir"
    /\ hilos[2].pc = "escribir"
    /\ RutaDePosicion(1) \in DOMAIN disco
    /\ RutaDePosicion(2) \in DOMAIN disco

\* ----------------------------------------------------------------- C14
\* run is in one of its two terminal states: it returned after the
\* no-images line or after the completion line.
RunTerminal ==
    RunRetorno /\ excepcion = "None"
       /\ (MsgSinImagenes \in salida \/ MsgTodas \in salida)

\* C14 as stated: the scheduler being fair and every request being
\* answered, run reaches a terminal state and the program ends normally.
C14_Termina == <>RunTerminal

\* ----------------------------------------------------------------- C15
\* The request of thread t is answered in this step (by a response or by
\* an error raised by line 99).
RespuestaAHilo(t) == DescargaFallaRed(t) \/ DescargaResponde(t)

\* C15: no timeout and no cancellation.  A thread whose request is not
\* answered stays where it is: no step but the answer to its request moves
\* it.  While a thread has not ended, the join loop has not passed it, the
\* completion line is not printed and run has not returned, whatever the
\* other threads did.
C15_Estado ==
    \A t \in 1..Len(hilos) :
       ~Terminado(hilos[t])
          => /\ unidos < t
             /\ MsgTodas \notin salida
             /\ ~RunRetorno
             /\ ~ENABLED Completar

C15_Paso ==
    \A t \in 1..Len(hilos) :
       (hilos[t].pc = "get" /\ ~RespuestaAHilo(t))
          => (t <= Len(hilos') /\ hilos'[t] = hilos[t])

C15_SinTimeout == []C15_Estado /\ [][C15_Paso]_vars

\* The first download has ended and has been joined, the request of the
\* second is unanswered: the main thread can take no step.
C15_Witness ==
    /\ pc = "esperando"
    /\ Len(hilos) = 2
    /\ Terminado(hilos[1])
    /\ unidos = 1
    /\ hilos[2].pc = "get"
    /\ ~ENABLED Join
    /\ ~ENABLED Completar

\* ----------------------------------------------------------------- C16
\* The phase of a run: 0 not started, 1 searching (the request is in
\* flight, or search has just returned), 2 downloading, 3 done.
Fase(p) ==
    IF p = "no_iniciado" THEN 0
    ELSE IF p \in {"buscando", "retornado"} THEN 1
    ELSE IF p \in {"lanzando", "esperando"} THEN 2
    ELSE 3

\* The phase of a download: 0 request sent, 1 writing, 2 ended.
FaseHilo(p) == IF p = "get" THEN 0 ELSE IF p = "escribir" THEN 1 ELSE 2

\* The script is started again: a new run, after the one before is done.
NuevaEjecucion == pc \in {"fin", "abortado"} /\ pc' = "buscando" /\ hilos' = <<>>

\* C16: within a run the phases only move forward; the search request is
\* sent once (the searching phase is entered only from not started); no
\* thread exists before search has returned; there is one thread per
\* position, its arguments never change and it only moves forward, so each
\* position is requested once; a failed search leaves the run without URLs
\* and a failed download leaves its thread ended: nothing is retried or
\* resumed.
C16_Estado ==
    /\ pc \in {"no_iniciado", "buscando", "retornado", "abortado"} => hilos = <<>>
    /\ Len(hilos) <= Len(urls)
    /\ \A a, b \in 1..Len(hilos) :
          a # b => hilos[a].nombre_archivo # hilos[b].nombre_archivo
    /\ \A t \in 1..Len(hilos) :
          MsgErrorDescarga(hilos[t].nombre_archivo) \in salida => Terminado(hilos[t])
    /\ MsgErrorApi \in salida => (urls = <<>> /\ hilos = <<>> /\ pc \in {"retornado", "fin"})

C16_Paso ==
    \/ NuevaEjecucion
    \/ /\ Fase(pc') >= Fase(pc)
       /\ pc' = "buscando" => pc \in {"no_iniciado", "buscando"}
       /\ pc = "buscando" => pc' # "no_iniciado"
       /\ Len(hilos') >= Len(hilos)
       /\ Len(hilos') <= Len(hilos) + 1
       /\ \A t \in 1..Len(hilos) :
             /\ hilos'[t].url = hilos[t].url
             /\ hilos'[t].nombre_archivo = hilos[t].nombre_archivo
             /\ FaseHilo(hilos'[t].pc) >= FaseHilo(hilos[t].pc)

C16_SoloAdelante == []C16_Estado /\ [][C16_Paso]_vars

\* The first download has failed and stays ended while the second writes.
C16_Witness ==
    /\ pc = "esperando"
    /\ Len(hilos) = 2
    /\ HiloFallo(1)
    /\ hilos[2].pc = "escribir"

\* ----------------------------------------------------------------- C17
\* C17: unbounded fan-out.  The join loop begins only when a thread has
\* been started for every URL, and while URLs remain the next thread can
\* be started at once, whatever the threads already started are doing.
\* (That all N downloads are in flight together is the witness.)
C17_FanOut ==
    /\ (pc = "esperando" \/ unidos > 0) => Len(hilos) = Len(urls)
    /\ pc = "lanzando" => unidos = 0
    /\ (pc \in {"retornado", "lanzando"} /\ Len(hilos) < Len(urls))
          => ENABLED Lanzar

\* As many threads as URLs, every one with its request in flight, none
\* joined yet.
C17_Witness ==
    /\ Len(urls) = 2
    /\ Len(hilos) = Len(urls)
    /\ \A t \in 1..Len(hilos) : hilos[t].pc = "get"
    /\ unidos = 0

\* ----------------------------------------------------------------- C18
\* The request of thread t, still unanswered, is answered with this status.
RecibeEstado(t, status) ==
    hilos[t].pc = "get" /\ UrlValida(hilos[t].url) /\ RespondeCon(t, status)

\* C18 as stated: a download that meets a connection error or a status
\* that is not 2xx leaves every file as it was.
C18_Paso_NoDosXX ==
    Len(hilos') >= Len(hilos) =>
       \A t \in 1..Len(hilos) :
          (\/ DescargaFallaRed(t)
           \/ \E status \in Estados \ (200..299) : RecibeEstado(t, status))
             => disco' = disco

C18_Paso_ErrorHttp ==
    Len(hilos') >= Len(hilos) =>
       /\ \A t \in 1..Len(hilos) :
             /\ (hilos[t].pc = "get" /\ hilos'[t].pc = "fin") => disco' = disco
             /\ \A status \in Estados \cap (400..599) :
                   RecibeEstado(t, status)
                      => (disco' = disco /\ Terminado(hilos'[t]))
             /\ (hilos[t].pc = "get" /\ hilos'[t].pc = "escribir")
                   => /\ Archivo(disco', RutaDePosicion(t)) = <<"archivo", <<>>>>
                      /\ \E status \in Estados \ (400..599) : RecibeEstado(t, status)
       /\ disco' # disco
             => \E t \in 1..Len(hilos) :
                   hilos'[t] # hilos[t] /\ hilos'[t].pc = "escribir"

====
